---- MODULE Spec2Model ----
(***************************************************************************)
(* A model of the uranium-deposit pipeline: the DataValidator              *)
(* (scripts/data_validator.py), the MiningDataProcessor                    *)
(* (scripts/data_processor.py) and the Streamlit script that drives them   *)
(* (app.py).                                                               *)
(*                                                                         *)
(* Numbers.  A DataFrame cell is a record [t, v, d]: t = "num" is the      *)
(* rational v/d in lowest terms (d > 0), t = "nan" is pandas' missing      *)
(* value, t = "txt" is a text cell that does not parse as a number.        *)
(* float64 arithmetic is idealised as exact rational arithmetic.           *)
(*                                                                         *)
(* Tables.  A DataFrame is the sequence of its rows; a row is a record of  *)
(* its columns plus "index", the DataFrame index label of the row.  The    *)
(* column names are shortened: DebutE = Début_EUTM, DebutN = Début_NUTM,   *)
(* FinE = Fin_EUTM, FinN = Fin_NUTM, Longueur = Longueur (m), de = de (m), *)
(* a = à (m), Epaisseur = Épaisseur (m), MoyU = Moyenne U (ppm),           *)
(* MaxU = Max U (ppm).  The columns N° Anomalie and N° Tranche, which no   *)
(* computation reads, are left out.                                        *)
(***************************************************************************)
EXTENDS Integers, Sequences, FiniteSets, TLC

VARIABLES
    script,       \* the steps of the script, in the order they run
    pc,           \* the step that runs next (or where the run ended)
    data_source,  \* the radio button: "sample" or "csv"
    uploaded_file,\* the file of the uploader
    cutoff_grade, \* the cutoff slider
    clustering_eps,  \* the clustering distance slider
    grid_resolution, \* the grid resolution slider
    econ,         \* the economic inputs: price, costs, recovery (percent)
    processor,    \* the MiningDataProcessor instance
    cache,        \* what st.cache_data holds for load_data (None: nothing)
    stages,       \* the calls made so far, each with how it ended
    exc,          \* the exception raised by the last call ("" when none)
    df_raw,       \* the table read from the uploaded file
    df_clean,     \* the table DataValidator.clean_data returned
    sample_data,  \* the raw table handed to load_and_preprocess_data
    df,           \* the processed table (None when there is none)
    model_results,      \* what train_uranium_model returned
    reserves,     \* the summary of the direct calculate_ore_reserves call
    ore_data,     \* the ore subset of the direct call
    interpolated_grids, \* what interpolate_3d_grid returned
    reserve_df,   \* the swept series, one row per swept cutoff
    optimal_cutoff, \* the reported optimal cutoff (-1 before it is reported)
    reported,     \* the optimal cutoffs reported by the completed runs
    before,       \* a caller's copy of the state taken when it made a call
    frozen,       \* the table as preprocessing or clustering last returned it
    observed      \* what a caller has seen its calls return

\* what the user set: the script never assigns these
inputVars == <<script, data_source, uploaded_file, cutoff_grade,
               clustering_eps, grid_resolution, econ>>

\* what the loading part of the script assigns
loadVars == <<cache, df_raw, df_clean, sample_data>>

\* what the stages and the reserves tab assign
resultVars == <<model_results, reserves, ore_data, interpolated_grids,
                reserve_df, optimal_cutoff, reported>>

\* what a caller that watches its calls keeps for itself
callerVars == <<before, frozen, observed>>

vars == <<inputVars, loadVars, resultVars, callerVars, pc, processor, stages,
          exc, df>>

(***************************************************************************)
(* Bounds of the model.                                                    *)
(***************************************************************************)
PreMaxRows == 2
ResMaxRows == 3
MaxRuns == 2
MaxCalls == 4
FileMaxRows == 2
SampleSize == 5

(***************************************************************************)
(* Cells and exact arithmetic on them.                                     *)
(***************************************************************************)
RECURSIVE Gcd(_, _)
Gcd(m, n) == IF n = 0 THEN m ELSE Gcd(n, m % n)

Abs(n) == IF n < 0 THEN -n ELSE n

Lcm(m, n) == (m \div Gcd(m, n)) * n

\* the number n/d (d > 0), in lowest terms
Rat(n, d) ==
    LET g == Gcd(Abs(n), d)
    IN  [t |-> "num", v |-> n \div g, d |-> d \div g]

Num(n) == Rat(n, 1)

NaN == [t |-> "nan", v |-> 0, d |-> 1]

\* a text cell that is not the text of a number
Txt == [t |-> "txt", v |-> 0, d |-> 1]

IsNum(c) == c.t = "num"

isna(c) == c.t = "nan"

Add(x, y) ==
    IF ~IsNum(x) \/ ~IsNum(y) THEN NaN
    ELSE LET l == Lcm(x.d, y.d)
         IN  Rat(x.v * (l \div x.d) + y.v * (l \div y.d), l)

Neg(x) == IF IsNum(x) THEN [x EXCEPT !.v = -x.v] ELSE NaN

Sub(x, y) == Add(x, Neg(y))

Mul(x, y) ==
    IF ~IsNum(x) \/ ~IsNum(y) THEN NaN
    ELSE LET g1 == Gcd(Abs(x.v), y.d)
             g2 == Gcd(Abs(y.v), x.d)
         IN  Rat((x.v \div g1) * (y.v \div g2), (x.d \div g2) * (y.d \div g1))

\* x / k for an integer k > 0
Div(x, k) == Mul(x, Rat(1, k))

\* x / y for y # 0
Quot(x, y) ==
    IF ~IsNum(x) \/ ~IsNum(y) THEN NaN
    ELSE Mul(x, Rat(IF y.v < 0 THEN -y.d ELSE y.d, Abs(y.v)))

\* comparisons: any comparison with a missing value is False
\* (the whole parts are compared first, then the fractional parts)
Le(x, y) ==
    /\ IsNum(x) /\ IsNum(y)
    /\ LET l == Lcm(x.d, y.d)
           wx == x.v \div x.d
           wy == y.v \div y.d
       IN  \/ wx < wy
           \/ /\ wx = wy
              /\ (x.v % x.d) * (l \div x.d) <= (y.v % y.d) * (l \div y.d)

Lt(x, y) == Le(x, y) /\ x # y

Ge(x, y) == Le(y, x)

Gt(x, y) == Lt(y, x)

(***************************************************************************)
(* Series reductions, as pandas computes them (skipna=True).               *)
(***************************************************************************)
Column(rows, col) == [i \in 1..Len(rows) |-> rows[i][col]]

RECURSIVE SumFrom(_, _)
SumFrom(s, i) ==
    IF i > Len(s) THEN Num(0)
    ELSE IF IsNum(s[i]) THEN Add(s[i], SumFrom(s, i + 1))
    ELSE SumFrom(s, i + 1)

\* Series.sum(): missing values are skipped, the empty sum is 0
Sum(s) == SumFrom(s, 1)

\* Series.min() and Series.max() of a column with no missing value
Min(s) == s[CHOOSE i \in 1..Len(s) : \A j \in 1..Len(s) : Le(s[i], s[j])]

Max(s) == s[CHOOSE i \in 1..Len(s) : \A j \in 1..Len(s) : Le(s[j], s[i])]

\* Series.count(): the number of values present
Count(s) == Cardinality({i \in 1..Len(s) : IsNum(s[i])})

\* a mean that answers 0 when no value is present
MeanZeroWhenEmpty(s) == IF Count(s) = 0 THEN Num(0) ELSE Div(Sum(s), Count(s))

\* Series.mean(): the mean of the values present, NaN when there is none
Mean(s) == IF Count(s) = 0 THEN NaN ELSE Div(Sum(s), Count(s))

fillna(c, value) == IF isna(c) THEN value ELSE c

\* the missing lithology label (a missing cell of a text column)
NoLabel == "NaN"

\* no table (a table the script holds has at least one row)
None == <<>>

\* pd.DataFrame / read_csv number the rows 0, 1, ... (the RangeIndex)
WithIndex(rows) == [i \in 1..Len(rows) |-> rows[i] @@ [index |-> i - 1]]

\* the tables of at most n rows drawn from S
TablesOf(S, n) == UNION {[1..k -> S] : k \in 0..n}

\* the log of calls, with the call that just ended added
Logged(call, outcome) == Append(stages, [call |-> call, outcome |-> outcome])

\* the step after step p of the script
After(p) == script[(CHOOSE k \in 1..Len(script) : script[k] = p) + 1]

(***************************************************************************)
(* DataValidator (scripts/data_validator.py).  The uploaded files of the   *)
(* model have all the required columns.                                    *)
(***************************************************************************)
\* validate_file_structure: the errors it reports
ValidationErrors(rows) ==
    IF Len(rows) = 0 THEN {"Le fichier ne contient aucune donnee"} ELSE {}

\* the conversion of clean_data, cell by cell (errors='coerce')
CleanRow(r) ==
    [f \in DOMAIN r |->
        IF f \in {"DebutE", "DebutN", "FinE", "FinN", "Direction", "Longueur",
                  "de", "a", "Epaisseur", "MoyU", "MaxU"}
        THEN (IF IsNum(r[f]) THEN r[f] ELSE NaN)
        ELSE IF f = "Lithologie" /\ r[f] = NoLabel THEN "Inconnu"
        ELSE r[f]]

\* the row filters of clean_data, all of them
KeptByCleaning(r) ==
    /\ \A c \in {"DebutE", "DebutN", "FinE", "FinN"} :
          Gt(r[c], Num(100000)) /\ Lt(r[c], Num(10000000))
    /\ \A c \in {"de", "a"} : Ge(r[c], Num(0))
    /\ Gt(r.a, r.de)
    /\ \A c \in {"MoyU", "MaxU"} : Ge(r[c], Num(0))
    /\ Ge(r.MaxU, r.MoyU)

clean_data(rows) ==
    SelectSeq([i \in 1..Len(rows) |-> CleanRow(rows[i])], KeptByCleaning)

(***************************************************************************)
(* MiningDataProcessor.load_and_preprocess_data                            *)
(***************************************************************************)

numeric_columns ==
    {"DebutE", "DebutN", "FinE", "FinN", "Direction", "Longueur",
     "de", "a", "Epaisseur", "MoyU", "MaxU"}

\* a critical list that forgets one endpoint column
critical_columns_without_FinN == {"DebutE", "DebutN", "FinE", "MoyU"}

critical_columns == {"DebutE", "DebutN", "FinE", "FinN", "MoyU"}

\* pd.to_numeric(..., errors='coerce') on one cell
to_numeric(c) == IF IsNum(c) THEN c ELSE NaN

CoerceRow(r) ==
    [f \in DOMAIN r |-> IF f \in numeric_columns THEN to_numeric(r[f]) ELSE r[f]]

Coerce(rows) == [i \in 1..Len(rows) |-> CoerceRow(rows[i])]

HasCritical(r) == \A c \in critical_columns : ~isna(r[c])

\* DataFrame.dropna(subset=...): the rows kept, in order, index labels kept
dropna(rows) == SelectSeq(rows, HasCritical)

\* the labels of the model, in the order sorted() gives them
LabelOrder == <<"Gneiss", "Granite", "Inconnu", "Quartzite", "Schiste">>

FillLabel(l) == IF l = NoLabel THEN "Inconnu" ELSE l

\* LabelEncoder.fit: classes_ is the sorted sequence of the distinct labels
RECURSIVE SortedLabels(_, _)
SortedLabels(present, k) ==
    IF k > Len(LabelOrder) THEN <<>>
    ELSE IF LabelOrder[k] \in present
         THEN <<LabelOrder[k]>> \o SortedLabels(present, k + 1)
         ELSE SortedLabels(present, k + 1)

\* the distinct labels in the order of their first row
RECURSIVE ClassesByFirstRow(_)
ClassesByFirstRow(rows) ==
    IF rows = <<>> THEN <<>>
    ELSE LET first == FillLabel(rows[1].Lithologie)
             Other(r) == FillLabel(r.Lithologie) # first
         IN  <<first>> \o ClassesByFirstRow(SelectSeq(Tail(rows), Other))

Classes(rows) ==
    SortedLabels({FillLabel(rows[i].Lithologie) : i \in 1..Len(rows)}, 1)

\* LabelEncoder.transform: a label's position in classes_, from 0
Encode(classes, l) == (CHOOSE k \in 1..Len(classes) : classes[k] = l) - 1

\* the derived columns of one retained row; lmean and tmean are the column
\* means taken before any filling
Derive(r, classes, lmean, tmean) ==
    LET longueur  == fillna(r.Longueur, lmean)
        epaisseur == fillna(r.Epaisseur, tmean)
        litho     == FillLabel(r.Lithologie)
    IN  [index |-> r.index,
         DebutE |-> r.DebutE, DebutN |-> r.DebutN,
         FinE |-> r.FinE, FinN |-> r.FinN,
         Direction |-> r.Direction,
         Longueur |-> longueur,
         de |-> r.de, a |-> r.a,
         Epaisseur |-> epaisseur,
         MoyU |-> r.MoyU, MaxU |-> r.MaxU,
         Lithologie |-> litho,
         X_mean |-> Div(Add(r.DebutE, r.FinE), 2),
         Y_mean |-> Div(Add(r.DebutN, r.FinN), 2),
         Z_mean |-> Div(Add(r.de, r.a), 2),
         Lithologie_encoded |-> Encode(classes, litho),
         Volume_approx |-> Mul(Mul(longueur, epaisseur), Num(1)),
         Gradient_U |-> Sub(r.MaxU, r.MoyU)]

\* the table the call builds from the rows that survive dropna
Preprocessed(kept) ==
    LET classes == Classes(kept)
        lmean   == Mean(Column(kept, "Longueur"))
        tmean   == Mean(Column(kept, "Epaisseur"))
    IN  [i \in 1..Len(kept) |-> Derive(kept[i], classes, lmean, tmean)]

Retained(rows) == dropna(Coerce(rows))

\* the call raises ValueError when no row survives
PreprocessRaises(rows) == Len(Retained(rows)) = 0

load_and_preprocess_data(rows) == Preprocessed(Retained(rows))

(***************************************************************************)
(* create_sample_data: n_samples rows of random values within the ranges   *)
(* of the generator, all fields present.  The model takes fixed values     *)
(* within those ranges; the positions do not lie in one plane.             *)
(***************************************************************************)
SampleRow(i) ==
    [DebutE |-> Num(500000 + 400 * (i % 2)),
     DebutN |-> Num(4500000 + 400 * ((i \div 2) % 2)),
     FinE |-> Num(500020 + 400 * (i % 2)),
     FinN |-> Num(4499980 + 400 * ((i \div 2) % 2)),
     Direction |-> Num(90),
     Longueur |-> Num(10 * (1 + (i % 2))),
     de |-> Num(i * i), a |-> Num(i * i + 10),
     Epaisseur |-> Num(1 + (i % 3)),
     MoyU |-> Num(20 + 20 * (i % 3)), MaxU |-> Num(30 + 20 * (i % 3)),
     Lithologie |-> <<"Granite", "Schiste", "Quartzite", "Gneiss">>[1 + (i % 4)]]

create_sample_data(n_samples) == WithIndex([i \in 1..n_samples |-> SampleRow(i - 1)])

(***************************************************************************)
(* MiningDataProcessor.spatial_clustering                                  *)
(***************************************************************************)
\* the array a sequence is held in, every element computed
Array(s) == <<>> \o s

Coords(t) ==
    Array([i \in 1..Len(t) |-> <<t[i].X_mean, t[i].Y_mean, t[i].Z_mean>>])

Axis(pts, k) == [i \in 1..Len(pts) |-> pts[i][k]]

\* StandardScaler.fit: the mean and the (population) variance of each axis,
\* taken over the values present
ScalerFit(pts) ==
    Array([k \in 1..3 |->
        LET mean == Mean(Axis(pts, k))
            sq   == [i \in 1..Len(pts) |->
                        Mul(Sub(pts[i][k], mean), Sub(pts[i][k], mean))]
        IN  [mean_ |-> mean, var_ |-> Mean(sq)]])

\* the square of the scale of an axis: its variance, 1 for a constant axis
Scale2(fit, k) == IF fit[k].var_ = Num(0) THEN Num(1) ELSE fit[k].var_

\* the squared Euclidean distance of two points after standardization
Dist2(pts, fit, i, j) ==
    LET term(k) == Quot(Mul(Sub(pts[i][k], pts[j][k]), Sub(pts[i][k], pts[j][k])),
                        Scale2(fit, k))
    IN  Add(Add(term(1), term(2)), term(3))

\* the eps-neighbourhoods (a point is in its own), eps being eps/1000
Neighbourhoods(pts, fit, eps) ==
    Array([i \in 1..Len(pts) |->
        {j \in 1..Len(pts) : Le(Dist2(pts, fit, i, j), Rat(eps * eps, 1000000))}])

\* everything reachable from the members through core points
RECURSIVE Expand(_, _, _, _)
Expand(members, free, core, nb) ==
    LET more == {j \in free : \E i \in members \cap core : j \in nb[i]}
    IN  IF more \subseteq members THEN members
        ELSE Expand(members \cup more, free, core, nb)

\* DBSCAN's labelling: the unlabelled core points are taken in row order,
\* each starts cluster c and gives its label to what it reaches
RECURSIVE Labelled(_, _, _, _)
Labelled(labels, c, core, nb) ==
    LET seeds == {i \in core : labels[i] = -1}
    IN  IF seeds = {} THEN labels
        ELSE LET first   == CHOOSE i \in seeds : \A j \in seeds : i <= j
                 free    == {j \in DOMAIN labels : labels[j] = -1}
                 members == Expand({first}, free, core, nb)
             IN  Labelled(Array([j \in DOMAIN labels |->
                                    IF j \in members THEN c ELSE labels[j]]),
                          c + 1, core, nb)

\* a labelling whose core points need min_samples neighbours besides
\* themselves
DBSCAN_not_counting_self(pts, fit, eps, min_samples) ==
    LET nb   == Neighbourhoods(pts, fit, eps)
        core == {i \in 1..Len(pts) : Cardinality(nb[i] \ {i}) >= min_samples}
    IN  Labelled(Array([i \in 1..Len(pts) |-> -1]), 0, core, nb)

\* DBSCAN(eps, min_samples).fit_predict on the standardized points
DBSCAN(pts, fit, eps, min_samples) ==
    LET nb   == Neighbourhoods(pts, fit, eps)
        core == {i \in 1..Len(pts) : Cardinality(nb[i]) >= min_samples}
    IN  Labelled(Array([i \in 1..Len(pts) |-> -1]), 0, core, nb)

\* DBSCAN refuses points with a missing coordinate (ValueError)
ClusteringRaises(t) ==
    \E i \in 1..Len(t) : \E k \in 1..3 : ~IsNum(Coords(t)[i][k])

\* a scaler that keeps the standardization an earlier call has fitted
fit_once(scaler, pts) == IF scaler = <<>> THEN ScalerFit(pts) ELSE scaler

\* self.scaler.fit_transform: the scaler is fitted anew on the points of the
\* call, whatever it was fitted on before
fit(scaler, pts) == ScalerFit(pts)

\* a clustering that hands back the clustered rows only, the noise removed
clustered_rows_only(t, eps, min_samples) ==
    LET labels == DBSCAN(Coords(t), fit(processor.scaler, Coords(t)), eps,
                         min_samples)
        tagged == [i \in 1..Len(t) |-> [Cluster |-> labels[i]] @@ t[i]]
        InCluster(r) == r.Cluster # -1
    IN  SelectSeq(tagged, InCluster)

\* the table with its Cluster column, set or overwritten (the caller's table
\* itself)
spatial_clustering(t, eps, min_samples) ==
    LET labels == DBSCAN(Coords(t), fit(processor.scaler, Coords(t)), eps,
                         min_samples)
    IN  [i \in 1..Len(t) |-> [Cluster |-> labels[i]] @@ t[i]]

(***************************************************************************)
(* MiningDataProcessor.train_uranium_model.  The forest and its metrics    *)
(* are not modelled; the split sizes and the ways the call fails are.      *)
(***************************************************************************)
features ==
    {"X_mean", "Y_mean", "Z_mean", "Epaisseur", "Longueur",
     "Lithologie_encoded", "Direction"}

\* a feature value is missing (the encoded lithology never is)
MissingFeature(r) ==
    \E f \in features \ {"Lithologie_encoded"} : ~IsNum(r[f])

\* train_test_split(test_size=0.2): the test set has ceil(0.2 n) rows
TestSize(n) == (n + 4) \div 5

TrainSize(n) == n - TestSize(n)

\* how the call can end: train_test_split raises ValueError when the train
\* set would be empty; with a missing feature value the forest raises
\* ValueError or fits, depending on the scikit-learn release
TrainOutcomes(t) ==
    IF TrainSize(Len(t)) = 0 THEN {"raised"}
    ELSE IF \E i \in 1..Len(t) : MissingFeature(t[i])
         THEN {"raised", "returned"}
         ELSE {"returned"}

(***************************************************************************)
(* MiningDataProcessor.interpolate_3d_grid.  The grade values of a slice   *)
(* are not modelled; the levels and the way the call fails are.            *)
(***************************************************************************)
\* the determinant of the three edges from point p to points q, r, s
Det(pts, p, q, r, s) ==
    LET e(i, k) == Sub(pts[i][k], pts[p][k])
        m(x, y) == Mul(x, y)
    IN  Add(Sub(m(e(q, 1), Sub(m(e(r, 2), e(s, 3)), m(e(r, 3), e(s, 2)))),
                m(e(q, 2), Sub(m(e(r, 1), e(s, 3)), m(e(r, 3), e(s, 1))))),
            m(e(q, 3), Sub(m(e(r, 1), e(s, 2)), m(e(r, 2), e(s, 1)))))

\* the points do not span the space: fewer than four, or all in one plane
Degenerate(pts) ==
    \A p, q, r, s \in 1..Len(pts) :
        (p < q /\ q < r /\ r < s) => Det(pts, p, q, r, s) = Num(0)

\* griddata(method='linear') triangulates the points and raises QhullError
\* when they do not span the space
InterpolationRaises(t) == Degenerate(Coords(t))

\* n points from lo in steps of (hi - lo) / n, hi left out
linspace_open(lo, hi, n) ==
    Array([k \in 1..n |-> Add(lo, Div(Mul(Sub(hi, lo), Num(k - 1)), n))])

\* np.linspace(lo, hi, n): n points from lo to hi, both included (lo alone
\* when n is 1, none when n is 0)
linspace(lo, hi, n) ==
    Array([k \in 1..n |->
              IF n = 1 THEN lo
              ELSE Add(lo, Div(Mul(Sub(hi, lo), Num(k - 1)), n - 1))])

\* one slice per level of z_grid; x and y are the axes of the slice's
\* meshgrid, shape the shape of its array of interpolated values
interpolate_3d_grid(t, resolution) ==
    LET x_grid == linspace(Min(Column(t, "X_mean")), Max(Column(t, "X_mean")),
                           resolution)
        y_grid == linspace(Min(Column(t, "Y_mean")), Max(Column(t, "Y_mean")),
                           resolution)
        z_grid == linspace(Min(Column(t, "Z_mean")), Max(Column(t, "Z_mean")),
                           resolution \div 2)
    IN  Array([k \in 1..Len(z_grid) |->
                  [x |-> x_grid, y |-> y_grid, z_level |-> z_grid[k],
                   shape |-> <<Len(y_grid), Len(x_grid)>>]])

(***************************************************************************)
(* MiningDataProcessor.calculate_ore_reserves                              *)
(***************************************************************************)
\* the row mask with a strict comparison
IsOreStrict(r, cutoff) == Gt(r.MoyU, Num(cutoff))

\* the row mask df['Moyenne U (ppm)'] >= cutoff_grade
IsOre(r, cutoff) == Ge(r.MoyU, Num(cutoff))

\* one row of ore_data: the row with its Tonnage and Metal_content
OreRow(r) ==
    LET tonnage == Mul(r.Volume_approx, Rat(27, 10))
    IN  r @@ [Tonnage |-> tonnage,
              Metal_content |-> Div(Mul(tonnage, r.MoyU), 1000000)]

OreData(t, cutoff) ==
    LET Kept(r) == IsOre(r, cutoff)
        ore == SelectSeq(t, Kept)
    IN  [i \in 1..Len(ore) |-> OreRow(ore[i])]

Reserves(ore) ==
    [total_tonnage |-> Sum(Column(ore, "Tonnage")),
     average_grade |-> Mean(Column(ore, "MoyU")),
     metal_content |-> Sum(Column(ore, "Metal_content")),
     ore_blocks    |-> Len(ore)]

\* the caller's table after a call that filtered it in place
TableFilteredInPlace(t, cutoff) ==
    LET Kept(r) == IsOre(r, cutoff) IN SelectSeq(t, Kept)

\* the caller's table after the call: the call works on a copy of the
\* selected rows, the table itself is left as it was
TableAfterReserves(t, cutoff) == t

(***************************************************************************)
(* app.py: the cutoff sweep and the economic optimisation of the reserves  *)
(* tab, run on the table load_data returned.                               *)
(***************************************************************************)
RECURSIVE arange(_, _, _)
arange(start, stop, step) ==
    IF start >= stop THEN <<>>
    ELSE <<start>> \o arange(start + step, stop, step)

cutoff_grades == arange(10, 101, 10)

SweepRow(t, cutoff) ==
    LET res == Reserves(OreData(t, cutoff))
    IN  [Cutoff        |-> cutoff,
         Tonnage       |-> res.total_tonnage,
         TeneurMoyenne |-> res.average_grade,
         ContenuMetal  |-> res.metal_content]

\* the loop over cutoff_grades from position i on, each call made on the
\* table the calls before it left
RECURSIVE SweepFrom(_, _)
SweepFrom(t, i) ==
    IF i > Len(cutoff_grades) THEN <<>>
    ELSE <<SweepRow(t, cutoff_grades[i])>>
         \o SweepFrom(TableAfterReserves(t, cutoff_grades[i]), i + 1)

RECURSIVE TableAfterSweep(_, _)
TableAfterSweep(t, i) ==
    IF i > Len(cutoff_grades) THEN t
    ELSE TableAfterSweep(TableAfterReserves(t, cutoff_grades[i]), i + 1)

\* the money columns with the tonnes of metal priced per kilogram
EconomicsPerTonne(row, e) ==
    LET brute == Mul(Mul(row.ContenuMetal, Num(e.uranium_price)),
                     Rat(e.recovery, 100))
        cout  == Mul(row.Tonnage, Num(e.mining_cost + e.processing_cost))
    IN  row @@ [ValeurBrute |-> brute, CoutTotal |-> cout,
                Profit |-> Sub(brute, cout)]

\* the three money columns added to one row of reserve_df
Economics(row, e) ==
    LET brute == Mul(Mul(Mul(row.ContenuMetal, Num(1000)), Num(e.uranium_price)),
                     Rat(e.recovery, 100))
        cout  == Mul(row.Tonnage, Num(e.mining_cost + e.processing_cost))
    IN  row @@ [ValeurBrute |-> brute, CoutTotal |-> cout,
                Profit |-> Sub(brute, cout)]

\* the position of the last maximum
idxmax_last(s) ==
    CHOOSE i \in 1..Len(s) :
        /\ \A j \in 1..Len(s) : Le(s[j], s[i])
        /\ \A j \in (i + 1)..Len(s) : s[j] # s[i]

\* Series.idxmax(): the position of the first maximum
idxmax(s) ==
    CHOOSE i \in 1..Len(s) :
        /\ \A j \in 1..Len(s) : Le(s[j], s[i])
        /\ \A j \in 1..(i - 1) : s[j] # s[i]

DefaultEcon ==
    [uranium_price |-> 130, mining_cost |-> 50, processing_cost |-> 30,
     recovery |-> 85]

(***************************************************************************)
(* The MiningDataProcessor instance and the call of                        *)
(* load_and_preprocess_data on its own.                                    *)
(***************************************************************************)
\* MiningDataProcessor.__init__
Unfitted ==
    [label_encoder |-> <<>>, scaler |-> <<>>, uranium_model |-> "None"]

\* the caller has made no call yet
NoCalls ==
    /\ before = [df |-> None, sample_data |-> None, processor |-> Unfitted]
    /\ frozen = None
    /\ observed = {}

NoResults ==
    /\ model_results = [train_rows |-> 0, test_rows |-> 0]
    /\ reserves = [total_tonnage |-> NaN, average_grade |-> NaN,
                   metal_content |-> NaN, ore_blocks |-> 0]
    /\ ore_data = <<>>
    /\ interpolated_grids = <<>>
    /\ reserve_df = <<>>
    /\ optimal_cutoff = -1
    /\ reported = <<>>

\* the caller's raw table after a call that coerced it in place
RawCoercedInPlace(rows) == Coerce(rows)

\* the caller's raw table after the call: the call works on
\* sample_data.copy(), the raw table is left as it was
RawAfterPreprocess(rows) == rows

\* the call returns the table and leaves the fitted encoder on the instance
LoadAndPreprocessReturn ==
    /\ pc = "preprocess"
    /\ ~PreprocessRaises(sample_data)
    /\ df' = load_and_preprocess_data(sample_data)
    /\ sample_data' = RawAfterPreprocess(sample_data)
    /\ processor' = [processor EXCEPT
                        !.label_encoder = Classes(Retained(sample_data))]
    /\ stages' = Logged("load_and_preprocess_data", "returned")
    /\ exc' = ""
    /\ pc' = After(pc)
    /\ UNCHANGED <<inputVars, callerVars, cache, df_raw, df_clean, resultVars>>

LoadAndPreprocessRaise ==
    /\ pc = "preprocess"
    /\ PreprocessRaises(sample_data)
    /\ sample_data' = RawAfterPreprocess(sample_data)
    /\ stages' = Logged("load_and_preprocess_data", "raised")
    /\ exc' = "ValueError"
    /\ pc' = "raised"
    /\ UNCHANGED <<inputVars, callerVars, cache, df_raw, df_clean, resultVars,
                   processor, df>>

(***************************************************************************)
(* app.py: loading.  The CSV branch validates and cleans a first read of   *)
(* the upload, then calls load_data, which reads the upload again.         *)
(***************************************************************************)
NoFile == [given |-> FALSE, rows |-> <<>>]

\* if df is not None
HasTableAlways(d) == TRUE

HasTable(d) == d # None

\* where the script goes once the loading part has set df to d
AfterLoading(d) == IF HasTable(d) THEN After("load") ELSE "nodata"

\* the uploader is empty: df = None
NoUpload ==
    /\ pc = "validate"
    /\ ~uploaded_file.given
    /\ df' = None
    /\ pc' = AfterLoading(None)
    /\ UNCHANGED <<inputVars, callerVars, loadVars, resultVars, processor, stages, exc>>

\* validate_file_structure reports errors: df = None
ValidationFails ==
    /\ pc = "validate"
    /\ uploaded_file.given
    /\ ValidationErrors(uploaded_file.rows) # {}
    /\ df_raw' = uploaded_file.rows
    /\ df' = None
    /\ pc' = AfterLoading(None)
    /\ UNCHANGED <<inputVars, callerVars, cache, df_clean, sample_data, resultVars,
                   processor, stages, exc>>

\* clean_data leaves no row: df = None
CleaningLeavesNothing ==
    /\ pc = "validate"
    /\ uploaded_file.given
    /\ ValidationErrors(uploaded_file.rows) = {}
    /\ clean_data(uploaded_file.rows) = <<>>
    /\ df_raw' = uploaded_file.rows
    /\ df_clean' = <<>>
    /\ df' = None
    /\ pc' = AfterLoading(None)
    /\ UNCHANGED <<inputVars, callerVars, cache, sample_data, resultVars, processor,
                   stages, exc>>

\* clean_data leaves rows: the script goes on to call load_data
Validated ==
    /\ pc = "validate"
    /\ uploaded_file.given
    /\ ValidationErrors(uploaded_file.rows) = {}
    /\ clean_data(uploaded_file.rows) # <<>>
    /\ df_raw' = uploaded_file.rows
    /\ df_clean' = clean_data(uploaded_file.rows)
    /\ pc' = After(pc)
    /\ UNCHANGED <<inputVars, callerVars, cache, sample_data, resultVars, processor,
                   stages, exc, df>>

\* the table the body of load_data hands to load_and_preprocess_data:
\* the generated sample, or what pd.read_csv reads from the upload
RawTable ==
    IF data_source = "sample" THEN create_sample_data(SampleSize)
    ELSE uploaded_file.rows

\* the exceptions the body of load_data can raise.  pd.read_csv reads the
\* stream of the upload from where it stands: the script has read it once
\* already and does not rewind it, so the read gives the content of the file
\* or raises EmptyDataError, as the stream's position has it.
LoadDataErrors ==
    (IF data_source = "csv" THEN {"EmptyDataError"} ELSE {})
        \cup (IF PreprocessRaises(RawTable) THEN {"ValueError"} ELSE {})

\* load_data: st.cache_data runs the body on a miss and stores what it
\* returns; every call hands the caller a copy of the stored table
LoadData ==
    /\ pc = "load"
    /\ cache # None \/ ~PreprocessRaises(RawTable)
    /\ LET table == IF cache = None
                     THEN load_and_preprocess_data(RawTable)
                     ELSE cache
       IN  /\ cache' = table
           /\ df' = table
           /\ pc' = AfterLoading(table)
    /\ sample_data' = IF cache = None THEN RawTable ELSE sample_data
    /\ processor' = IF cache = None
                     THEN [processor EXCEPT
                            !.label_encoder = Classes(Retained(RawTable))]
                     ELSE processor
    /\ stages' = IF cache = None
                  THEN Append(Logged("load_and_preprocess_data", "returned"),
                              [call |-> "load_data", outcome |-> "returned"])
                  ELSE Logged("load_data", "returned")
    /\ exc' = ""
    /\ UNCHANGED <<inputVars, callerVars, df_raw, df_clean, resultVars>>

\* load_data raises: the script catches the exception and sets df = None
LoadDataRaise ==
    /\ pc = "load"
    /\ cache = None
    /\ \E error \in LoadDataErrors :
          /\ exc' = error
          /\ sample_data' = IF error = "ValueError" THEN RawTable
                            ELSE sample_data
          /\ stages' = IF error = "ValueError"
                        THEN Append(Logged("load_and_preprocess_data", "raised"),
                                    [call |-> "load_data", outcome |-> "raised"])
                        ELSE Logged("load_data", "raised")
    /\ df' = None
    /\ pc' = AfterLoading(None)
    /\ UNCHANGED <<inputVars, callerVars, cache, df_raw, df_clean, resultVars, processor>>

(***************************************************************************)
(* app.py: the four stages.  No exception is caught here: a stage that     *)
(* raises ends the run of the script.                                      *)
(***************************************************************************)
\* df_clustered = processor.spatial_clustering(df, eps=clustering_eps)
Cluster ==
    /\ pc = "cluster"
    /\ ~ClusteringRaises(df)
    /\ df' = spatial_clustering(df, clustering_eps, 3)
    /\ processor' = [processor EXCEPT
                        !.scaler = fit(processor.scaler, Coords(df))]
    /\ stages' = Logged("spatial_clustering", "returned")
    /\ pc' = After(pc)
    /\ UNCHANGED <<inputVars, callerVars, loadVars, resultVars, exc>>

ClusterRaise ==
    /\ pc = "cluster"
    /\ ClusteringRaises(df)
    /\ processor' = [processor EXCEPT
                        !.scaler = fit(processor.scaler, Coords(df))]
    /\ stages' = Logged("spatial_clustering", "raised")
    /\ exc' = "ValueError"
    /\ pc' = "aborted"
    /\ UNCHANGED <<inputVars, callerVars, loadVars, resultVars, df>>

\* model_results = processor.train_uranium_model(df_clustered)
TrainReturn ==
    /\ pc = "train"
    /\ "returned" \in TrainOutcomes(df)
    /\ model_results' = [train_rows |-> TrainSize(Len(df)),
                         test_rows |-> TestSize(Len(df))]
    /\ processor' = [processor EXCEPT !.uranium_model = "fitted"]
    /\ stages' = Logged("train_uranium_model", "returned")
    /\ pc' = After(pc)
    /\ UNCHANGED <<inputVars, callerVars, loadVars, df, exc, reserves, ore_data,
                   interpolated_grids, reserve_df, optimal_cutoff, reported>>

\* the split raises before the forest is made, the fit after it
TrainRaise ==
    /\ pc = "train"
    /\ "raised" \in TrainOutcomes(df)
    /\ processor' = IF TrainSize(Len(df)) = 0 THEN processor
                     ELSE [processor EXCEPT !.uranium_model = "unfitted"]
    /\ stages' = Logged("train_uranium_model", "raised")
    /\ exc' = "ValueError"
    /\ pc' = "aborted"
    /\ UNCHANGED <<inputVars, callerVars, loadVars, resultVars, df>>

\* reserves, ore_data = processor.calculate_ore_reserves(df, cutoff_grade)
CalculateReserves ==
    /\ pc = "reserves"
    /\ ore_data' = OreData(df, cutoff_grade)
    /\ reserves' = Reserves(OreData(df, cutoff_grade))
    /\ df' = TableAfterReserves(df, cutoff_grade)
    /\ stages' = Logged("calculate_ore_reserves", "returned")
    /\ pc' = After(pc)
    /\ UNCHANGED <<inputVars, callerVars, loadVars, processor, exc, model_results,
                   interpolated_grids, reserve_df, optimal_cutoff, reported>>

\* interpolated_grids = processor.interpolate_3d_grid(df, grid_resolution)
Interpolate ==
    /\ pc = "interpolate"
    /\ grid_resolution \div 2 = 0 \/ ~InterpolationRaises(df)
    /\ interpolated_grids' = interpolate_3d_grid(df, grid_resolution)
    /\ stages' = Logged("interpolate_3d_grid", "returned")
    /\ pc' = After(pc)
    /\ UNCHANGED <<inputVars, callerVars, loadVars, processor, exc, df, model_results,
                   reserves, ore_data, reserve_df, optimal_cutoff, reported>>

InterpolateRaise ==
    /\ pc = "interpolate"
    /\ grid_resolution \div 2 > 0
    /\ InterpolationRaises(df)
    /\ stages' = Logged("interpolate_3d_grid", "raised")
    /\ exc' = "QhullError"
    /\ pc' = "aborted"
    /\ UNCHANGED <<inputVars, callerVars, loadVars, resultVars, processor, df>>

(***************************************************************************)
(* app.py: the reserves tab.                                               *)
(***************************************************************************)
\* the loop that fills reserve_data, and reserve_df built from it
Sweep ==
    /\ pc = "sweep"
    /\ reserve_df' = SweepFrom(df, 1)
    /\ df' = TableAfterSweep(df, 1)
    /\ pc' = After(pc)
    /\ UNCHANGED <<inputVars, callerVars, loadVars, processor, stages, exc, model_results,
                   reserves, ore_data, interpolated_grids, optimal_cutoff,
                   reported>>

\* the money columns and the optimal cutoff
Optimise ==
    /\ pc = "economics"
    /\ LET priced == [i \in 1..Len(reserve_df) |-> Economics(reserve_df[i], econ)]
       IN  /\ reserve_df' = priced
           /\ optimal_cutoff' = priced[idxmax(Column(priced, "Profit"))].Cutoff
           /\ reported' = Append(reported,
                                 priced[idxmax(Column(priced, "Profit"))].Cutoff)
    /\ pc' = After(pc)
    /\ UNCHANGED <<inputVars, callerVars, loadVars, processor, stages, exc, df,
                   model_results, reserves, ore_data, interpolated_grids>>

\* Streamlit runs the script again, with the same widget values
Rerun ==
    /\ pc = "done"
    /\ Len(reported) < MaxRuns
    /\ pc' = script[1]
    /\ stages' = <<>>
    /\ exc' = ""
    /\ UNCHANGED <<inputVars, callerVars, loadVars, resultVars, processor, df>>

(***************************************************************************)
(* The run of the script (Spec): either source, the upload being absent or *)
(* a file of up to FileMaxRows rows.  A row of a file is valid, or has its *)
(* depths inverted, or lacks its start depth, or has an unparsable         *)
(* easting.                                                                *)
(***************************************************************************)
Kinds == {"valid", "inverted", "nodepth", "badcoord"}

\* the row of kind k at position i of a file
FileRow(k, i) ==
    [DebutE |-> IF k = "badcoord" THEN Txt ELSE Num(500000 + 100 * (i % 2)),
     DebutN |-> Num(4500000 + 100 * ((i \div 2) % 2)),
     FinE |-> Num(500020 + 100 * (i % 2)),
     FinN |-> Num(4500020 + 100 * ((i \div 2) % 2)),
     Direction |-> Num(90), Longueur |-> Num(10),
     de |-> IF k = "nodepth" THEN NaN
            ELSE IF k = "inverted" THEN Num(20 + i * i) ELSE Num(i * i),
     a |-> Num(10 + i * i),
     Epaisseur |-> Num(1),
     MoyU |-> Num(20 + 20 * (i % 3)), MaxU |-> Num(30 + 20 * (i % 3)),
     Lithologie |-> "Granite"]

Files ==
    {WithIndex([i \in 1..Len(ks) |-> FileRow(ks[i], i - 1)]) :
        ks \in TablesOf(Kinds, FileMaxRows)}

Uploads == {[given |-> TRUE, rows |-> rows] : rows \in Files}

Stages ==
    <<"load", "cluster", "train", "reserves", "interpolate", "sweep",
      "economics", "done">>

\* nothing has run yet
Fresh ==
    /\ processor = Unfitted
    /\ cache = None
    /\ stages = <<>>
    /\ exc = ""
    /\ df_raw = None
    /\ df_clean = None
    /\ sample_data = None
    /\ df = None
    /\ NoResults
    /\ NoCalls

Sliders ==
    /\ cutoff_grade \in {30, 50}
    /\ clustering_eps \in {100, 500}
    /\ grid_resolution = 20
    /\ econ = DefaultEcon

Init ==
    /\ data_source \in {"sample", "csv"}
    /\ uploaded_file \in
          (IF data_source = "csv" THEN Uploads \cup {NoFile} ELSE {NoFile})
    /\ script = IF data_source = "csv" THEN <<"validate">> \o Stages ELSE Stages
    /\ pc = script[1]
    /\ Sliders
    /\ Fresh

Next ==
    \/ NoUpload
    \/ ValidationFails
    \/ CleaningLeavesNothing
    \/ Validated
    \/ LoadData
    \/ LoadDataRaise
    \/ Cluster
    \/ ClusterRaise
    \/ TrainReturn
    \/ TrainRaise
    \/ CalculateReserves
    \/ Interpolate
    \/ InterpolateRaise
    \/ Sweep
    \/ Optimise
    \/ Rerun

Spec == Init /\ [][Next]_vars

(***************************************************************************)
(* The call of load_data and what follows it (SpecLoad), for the sample    *)
(* and for any file, whether or not the validator would let it through.    *)
(***************************************************************************)
LoadInit ==
    /\ data_source \in {"sample", "csv"}
    /\ uploaded_file \in (IF data_source = "csv" THEN Uploads ELSE {NoFile})
    /\ script = Stages
    /\ pc = "load"
    /\ Sliders
    /\ Fresh

LoadNext ==
    \/ LoadData
    \/ LoadDataRaise
    \/ Cluster
    \/ ClusterRaise
    \/ TrainReturn
    \/ TrainRaise
    \/ CalculateReserves
    \/ Interpolate
    \/ InterpolateRaise
    \/ Sweep
    \/ Optimise
    \/ Rerun

SpecLoad == LoadInit /\ [][LoadNext]_vars

(***************************************************************************)
(* The reserve specification (SpecReserves): load_data, the direct call of *)
(* calculate_ore_reserves, the sweep and the optimisation, on files of up  *)
(* to ResMaxRows rows whose grade and length vary (a length may be         *)
(* negative or missing), with two cutoffs and two cost levels.             *)
(***************************************************************************)
ResRawRow(u, l, t) ==
    [DebutE |-> Num(500000), DebutN |-> Num(4500000),
     FinE |-> Num(500100), FinN |-> Num(4500100),
     Direction |-> Num(90), Longueur |-> l,
     de |-> Num(0), a |-> Num(10), Epaisseur |-> t,
     MoyU |-> u, MaxU |-> Num(60), Lithologie |-> "Granite"]

ResRawRows ==
    {ResRawRow(Num(10), Num(2), Num(1)),
     ResRawRow(Num(40), Num(2), Num(1)),
     ResRawRow(Num(60), Num(2), Num(1)),
     ResRawRow(Num(10), Num(-1), Num(1)),
     ResRawRow(Num(40), NaN, Num(1))}

ResCutoffs == {30, 60}

ResEcon ==
    [uranium_price : {130}, mining_cost : {1}, processing_cost : {0, 2},
     recovery : {85}]

ResInit ==
    /\ data_source = "csv"
    /\ uploaded_file \in
          {[given |-> TRUE, rows |-> WithIndex(t)] :
              t \in TablesOf(ResRawRows, ResMaxRows)}
    /\ script = <<"load", "reserves", "sweep", "economics", "done">>
    /\ pc = "load"
    /\ cutoff_grade \in ResCutoffs
    /\ clustering_eps = 100
    /\ grid_resolution = 20
    /\ econ \in ResEcon
    /\ Fresh

ResNext ==
    \/ LoadData
    \/ LoadDataRaise
    \/ CalculateReserves
    \/ Sweep
    \/ Optimise
    \/ Rerun

SpecReserves == ResInit /\ [][ResNext]_vars

(***************************************************************************)
(* The preprocessing specification (SpecPre): load_and_preprocess_data on  *)
(* raw tables of up to PreMaxRows rows in which every critical field is    *)
(* either a number or a cell that is missing or unparsable.                *)
(***************************************************************************)
PreRawRow(e1, n1, e2, n2, u) ==
    [DebutE |-> e1, DebutN |-> n1, FinE |-> e2, FinN |-> n2,
     Direction |-> Num(90), Longueur |-> Num(2),
     de |-> Num(0), a |-> Num(10), Epaisseur |-> Num(1),
     MoyU |-> u, MaxU |-> Num(60), Lithologie |-> "Granite"]

PreRawRows ==
    {PreRawRow(e1, n1, e2, n2, u) :
        e1 \in {Num(500000), Txt},
        n1 \in {Num(4500000), NaN},
        e2 \in {Num(500100), NaN},
        n2 \in {Num(4500100), Txt},
        u  \in {Num(40), Txt}}

PreInit ==
    /\ data_source = "sample"
    /\ uploaded_file = NoFile
    /\ script = <<"preprocess", "returned">>
    /\ pc = "preprocess"
    /\ cutoff_grade = 30
    /\ clustering_eps = 100
    /\ grid_resolution = 20
    /\ econ = DefaultEcon
    /\ processor = Unfitted
    /\ cache = None
    /\ stages = <<>>
    /\ exc = ""
    /\ df_raw = None
    /\ df_clean = None
    /\ sample_data \in {WithIndex(t) : t \in TablesOf(PreRawRows, PreMaxRows)}
    /\ df = None
    /\ NoResults
    /\ NoCalls

PreNext == LoadAndPreprocessReturn \/ LoadAndPreprocessRaise

SpecPre == PreInit /\ [][PreNext]_vars

(***************************************************************************)
(* A caller of the processor (SpecCalls): it calls the methods of one      *)
(* MiningDataProcessor in any order, on raw tables and with arguments of   *)
(* its choice, catches what they raise, and notes what each call returned. *)
(***************************************************************************)
Methods == {"preprocess", "cluster", "train", "reserves", "interpolate"}

CallScript ==
    <<"preprocess", "returned", "cluster", "returned", "train", "returned",
      "reserves", "returned", "interpolate", "returned">>

\* three anomalies at one place, the third without length and lithology, and
\* a fourth anomaly 90 m east of them
CallRow(i) ==
    [FileRow("valid", 0) EXCEPT
        !.DebutE = Num(500000 + 90 * (i \div 3)),
        !.FinE = Num(500020 + 90 * (i \div 3)),
        !.Longueur = IF i = 2 THEN NaN ELSE Num(10 + 10 * i),
        !.MoyU = Num(20 + 20 * (i % 3)),
        !.MaxU = Num(30 + 20 * (i % 3)),
        !.Lithologie = IF i = 2 THEN NoLabel
                       ELSE IF i = 0 THEN "Schiste" ELSE "Granite"]

\* the raw tables of the caller: the sample, the four anomalies above, one
\* valid row, one row without easting
CallRaws ==
    {create_sample_data(SampleSize),
     WithIndex([i \in 1..4 |-> CallRow(i - 1)]),
     WithIndex(<<FileRow("valid", 0)>>),
     WithIndex(<<FileRow("badcoord", 0)>>)}

CallEps == {100, 500}

CallCutoffs == {30, 60}

\* the caller calls a method, with arguments of its choice
Call ==
    /\ pc = "idle"
    /\ Len(stages) < MaxCalls
    /\ \E m \in (IF df = None THEN {"preprocess"} ELSE Methods) :
          /\ pc' = m
          /\ sample_data' \in (IF m = "preprocess" THEN CallRaws
                               ELSE {sample_data})
          /\ clustering_eps' \in (IF m = "cluster" THEN CallEps
                                  ELSE {clustering_eps})
          /\ cutoff_grade' \in (IF m = "reserves" THEN CallCutoffs
                                ELSE {cutoff_grade})
    /\ before' = [df |-> df, sample_data |-> sample_data',
                  processor |-> processor]
    /\ UNCHANGED <<script, data_source, uploaded_file, grid_resolution, econ,
                   cache, df_raw, df_clean, resultVars, frozen, observed,
                   processor, stages, exc, df>>

\* the last call made
LastCall == stages[Len(stages)]

\* what the caller notes of the call that has just ended: the method, how
\* it ended, the table and the arguments it was given, and what it returned.
\* For train, reserves and interpolate the table noted is the table as
\* preprocessing or clustering last returned it.
Observation ==
    LET call == LastCall.call
        ok   == LastCall.outcome = "returned"
    IN  [call |-> call,
         outcome |-> LastCall.outcome,
         input |->
            IF call = "load_and_preprocess_data" THEN before.sample_data
            ELSE IF call = "spatial_clustering" THEN before.df
            ELSE frozen,
         args |->
            IF call = "spatial_clustering" THEN clustering_eps
            ELSE IF call = "calculate_ore_reserves" THEN cutoff_grade
            ELSE 0,
         output |->
            IF ~ok THEN <<>>
            ELSE IF call \in {"load_and_preprocess_data", "spatial_clustering"}
                 THEN <<df>>
            ELSE IF call = "train_uranium_model" THEN <<model_results>>
            ELSE IF call = "calculate_ore_reserves" THEN <<reserves, ore_data>>
            ELSE <<interpolated_grids>>]

\* the call has ended: the caller notes it and is ready for the next call
Observe ==
    /\ pc \in {"returned", "raised", "aborted"}
    /\ observed' = observed \cup {Observation}
    /\ frozen' = IF /\ LastCall.outcome = "returned"
                    /\ LastCall.call \in {"load_and_preprocess_data",
                                          "spatial_clustering"}
                 THEN df ELSE frozen
    /\ exc' = ""
    /\ pc' = "idle"
    /\ UNCHANGED <<inputVars, loadVars, resultVars, before, processor, stages,
                   df>>

CallInit ==
    /\ data_source = "sample"
    /\ uploaded_file = NoFile
    /\ script = CallScript
    /\ pc = "idle"
    /\ cutoff_grade = 30
    /\ clustering_eps = 100
    /\ grid_resolution = 20
    /\ econ = DefaultEcon
    /\ Fresh

CallNext ==
    \/ Call
    \/ Observe
    \/ LoadAndPreprocessReturn
    \/ LoadAndPreprocessRaise
    \/ Cluster
    \/ TrainReturn
    \/ TrainRaise
    \/ CalculateReserves
    \/ Interpolate
    \/ InterpolateRaise

SpecCalls == CallInit /\ [][CallNext]_vars

(***************************************************************************)
(* The clustering specification: tables of ClusterMinRows to               *)
(* ClusterMaxRows anomalies placed along the easting at the offsets of     *)
(* ClusterOffsets (metres), in the order of their easting or the reverse,  *)
(* are preprocessed and clustered with one of two eps.                     *)
(***************************************************************************)
ClusterMinRows == 4

ClusterMaxRows == 7

ClusterOffsets == <<0, 2, 4, 30, 60>>

ClusterRow(x) ==
    [FileRow("valid", 0) EXCEPT !.DebutE = Num(500000 + x),
                                !.FinE = Num(500020 + x)]

ClusterRaws ==
    LET Ascending(n) ==
            {s \in [1..n -> 1..Len(ClusterOffsets)] :
                \A i \in 1..(n - 1) : s[i] <= s[i + 1]}
        Placed(s, up) ==
            [i \in 1..Len(s) |->
                ClusterRow(ClusterOffsets[s[IF up THEN i ELSE Len(s) + 1 - i]])]
    IN  {WithIndex(Placed(s, up)) :
            s \in UNION {Ascending(n) : n \in ClusterMinRows..ClusterMaxRows},
            up \in BOOLEAN}

ClusterInit ==
    /\ data_source = "sample"
    /\ uploaded_file = NoFile
    /\ script = <<"preprocess", "cluster", "returned">>
    /\ pc = "preprocess"
    /\ cutoff_grade = 30
    /\ clustering_eps \in CallEps
    /\ grid_resolution = 20
    /\ econ = DefaultEcon
    /\ processor = Unfitted
    /\ cache = None
    /\ stages = <<>>
    /\ exc = ""
    /\ df_raw = None
    /\ df_clean = None
    /\ sample_data \in ClusterRaws
    /\ df = None
    /\ NoResults
    /\ NoCalls

ClusterNext == LoadAndPreprocessReturn \/ Cluster

SpecCluster == ClusterInit /\ [][ClusterNext]_vars

(***************************************************************************)
(* The interpolation specification: a table made of some of the first      *)
(* GridMaxRows rows of the sample is preprocessed and interpolated at a    *)
(* resolution of 0 to GridMaxResolution, or at the slider's lowest value.  *)
(***************************************************************************)
GridMaxRows == 5

GridMaxResolution == 5

\* st.sidebar.slider("Résolution grille 3D", 20, 100, 50): the lowest value
SliderMinResolution == 20

GridResolutions == (0..GridMaxResolution) \cup {SliderMinResolution}

GridRaws ==
    LET sample == create_sample_data(GridMaxRows)
        Rows(S) == LET Picked(r) == r.index \in S IN SelectSeq(sample, Picked)
    IN  {WithIndex(Rows(S)) : S \in (SUBSET (0..(GridMaxRows - 1))) \ {{}}}

GridInit ==
    /\ data_source = "sample"
    /\ uploaded_file = NoFile
    /\ script = <<"preprocess", "interpolate", "returned">>
    /\ pc = "preprocess"
    /\ cutoff_grade = 30
    /\ clustering_eps = 100
    /\ grid_resolution \in GridResolutions
    /\ econ = DefaultEcon
    /\ processor = Unfitted
    /\ cache = None
    /\ stages = <<>>
    /\ exc = ""
    /\ df_raw = None
    /\ df_clean = None
    /\ sample_data \in GridRaws
    /\ df = None
    /\ NoResults
    /\ NoCalls

GridNext == LoadAndPreprocessReturn \/ Interpolate \/ InterpolateRaise

SpecGrid == GridInit /\ [][GridNext]_vars

(***************************************************************************)
(* Claims about the run of the script (Spec, SpecLoad).                    *)
(***************************************************************************)
Called(call) == \E k \in 1..Len(stages) : stages[k].call = call

Returned(call) ==
    \E k \in 1..Len(stages) : stages[k] = [call |-> call, outcome |-> "returned"]

Raised(call) ==
    \E k \in 1..Len(stages) : stages[k] = [call |-> call, outcome |-> "raised"]

\* the three analyses that follow the clustering
Analyses ==
    {"train_uranium_model", "calculate_ore_reserves", "interpolate_3d_grid"}

C2_PreprocessingFailureIsFatal ==
    \A k \in 1..Len(stages) :
        stages[k] = [call |-> "load_and_preprocess_data", outcome |-> "raised"]
            => /\ pc = "nodata"
               /\ df = None
               /\ \A j \in 1..Len(stages) :
                     stages[j].call \notin Analyses \cup {"spatial_clustering"}
               /\ model_results.train_rows = 0
               /\ reserves.ore_blocks = 0 /\ ore_data = <<>>
               /\ interpolated_grids = <<>>

\* a file with a row, none of whose rows has its five critical fields
C2_Witness ==
    /\ Raised("load_and_preprocess_data")
    /\ exc = "ValueError"
    /\ Len(sample_data) = 2
    /\ pc = "nodata"

JustReturned(m) ==
    /\ pc = "returned"
    /\ LastCall = [call |-> m, outcome |-> "returned"]

\* C11: two calls of load_and_preprocess_data on the same raw table end the
\* same way and return the same table, whatever was called on the processor
\* between them, and the raw table is as it was before the call.
C11_PreprocessingIsIdempotent ==
    /\ \A o1, o2 \in observed :
          (/\ o1.call = "load_and_preprocess_data"
           /\ o2.call = "load_and_preprocess_data"
           /\ o1.input = o2.input) => o1 = o2
    /\ (pc \in {"returned", "raised"}
           /\ LastCall.call = "load_and_preprocess_data")
          => /\ sample_data = before.sample_data
             /\ \A o \in observed :
                   (o.call = LastCall.call /\ o.input = before.sample_data)
                      => o = Observation

\* the four anomalies were preprocessed, clustered, used for training and
\* preprocessed again, and the second table is the first one
C11_Witness ==
    /\ JustReturned("load_and_preprocess_data")
    /\ Len(stages) = 4
    /\ stages[1] = [call |-> "load_and_preprocess_data", outcome |-> "returned"]
    /\ stages[2] = [call |-> "spatial_clustering", outcome |-> "returned"]
    /\ stages[3] = [call |-> "train_uranium_model", outcome |-> "returned"]
    /\ Len(sample_data) = 4
    /\ Observation \in observed
    /\ processor.uranium_model = "fitted"

\* the rows of a clustered table that are noise, and the set of its clusters
Partition(t) ==
    [noise |-> {i \in 1..Len(t) : t[i].Cluster = -1},
     clusters |-> {{i \in 1..Len(t) : t[i].Cluster = t[j].Cluster} :
                      j \in {i \in 1..Len(t) : t[i].Cluster # -1}}]

\* the partition a processor that has clustered nothing yet gives
FreshPartition(t, eps) ==
    LET labels == DBSCAN(Coords(t), ScalerFit(Coords(t)), eps, 3)
    IN  Partition([i \in 1..Len(t) |-> [Cluster |-> labels[i]]])

\* C12: two calls of spatial_clustering on the same rows with the same eps
\* (and min_samples) give the same partition into noise and clusters,
\* whatever was clustered on the processor between them: the partition is
\* the one a processor that has clustered nothing yet gives.
C12_ClusteringIsStable ==
    /\ \A o1, o2 \in observed :
          (/\ o1.call = "spatial_clustering" /\ o2.call = "spatial_clustering"
           /\ Coords(o1.input) = Coords(o2.input)
           /\ o1.args = o2.args)
             => /\ o1.outcome = "returned" /\ o2.outcome = "returned"
                /\ Partition(o1.output[1]) = Partition(o2.output[1])
    /\ JustReturned("spatial_clustering")
          => Partition(df) = FreshPartition(before.df, clustering_eps)

\* the sample has been clustered, then the four anomalies are preprocessed
\* and clustered with eps 500 on the same processor: three of them make a
\* cluster and the fourth is noise
C12_Witness ==
    /\ JustReturned("spatial_clustering")
    /\ Len(stages) = 4
    /\ stages[2] = [call |-> "spatial_clustering", outcome |-> "returned"]
    /\ \E o \in observed :
          o.call = "spatial_clustering" /\ Len(o.input) = SampleSize
    /\ clustering_eps = 500
    /\ Len(df) = 4
    /\ processor.scaler = ScalerFit(Coords(df))
    /\ Partition(df) = [noise |-> {4}, clusters |-> {{1, 2, 3}}]

\* C13: spatial_clustering returns the rows it was given, in the same order
\* and with every field they had unchanged; the only difference is the
\* Cluster field, one integer per row (-1 or the number of a cluster).
C13_ClusteringKeepsTheRows ==
    JustReturned("spatial_clustering")
        => /\ Len(df) = Len(before.df)
           /\ \A i \in 1..Len(df) :
                 /\ DOMAIN df[i] = DOMAIN before.df[i] \cup {"Cluster"}
                 /\ \A f \in DOMAIN before.df[i] \ {"Cluster"} :
                       df[i][f] = before.df[i][f]
                 /\ df[i].Cluster \in -1..(Len(df) - 1)

\* four rows are clustered, one of them comes out as noise and one in a
\* cluster
C13_Witness ==
    /\ JustReturned("spatial_clustering")
    /\ Len(before.df) = 4
    /\ "Cluster" \notin DOMAIN before.df[1]
    /\ \E i, j \in 1..Len(df) : df[i].Cluster = -1 /\ df[j].Cluster = 0

\* C14: when train_uranium_model, interpolate_3d_grid or
\* calculate_ore_reserves has returned, the table it was given is as it was
\* before the call and so is every field of the processor (and the raw
\* table the caller holds).
C14_AnalysesMutateNothing ==
    (\E m \in Analyses : JustReturned(m))
        => /\ df = before.df
           /\ processor = before.processor
           /\ sample_data = before.sample_data

\* C15: on a table that preprocessing or clustering has left, the result of
\* train_uranium_model, interpolate_3d_grid and calculate_ore_reserves does
\* not depend on which of them ran before it or how often: each is given
\* the table as it was left, and two calls of the same operation on the
\* same table with the same argument end the same way with the same result.
C15_AnalysesInAnyOrder ==
    /\ \A o1, o2 \in observed :
          (/\ o1.call \in Analyses
           /\ o1.call = o2.call
           /\ o1.input = o2.input
           /\ o1.args = o2.args)
             => o1.outcome = o2.outcome /\ o1.output = o2.output
    /\ (stages # <<>> /\ LastCall.call \in Analyses /\ pc # "idle")
          => before.df = frozen /\ df = frozen

\* the three have run in the order opposite to the application's, each
\* after the other two had run or not, and the last one returns
C15_Witness ==
    /\ pc = "returned"
    /\ Len(stages) = 4
    /\ stages[2] = [call |-> "interpolate_3d_grid", outcome |-> "returned"]
    /\ stages[3] = [call |-> "calculate_ore_reserves", outcome |-> "returned"]
    /\ stages[4] = [call |-> "train_uranium_model", outcome |-> "returned"]
    /\ reserves.ore_blocks \in 1..(Len(df) - 1)
    /\ \E o \in observed :
          o.call = "interpolate_3d_grid" /\ o.input = frozen

\* C16: when the midpoints of the table do not span the space (fewer than
\* four of them, or all in one plane), interpolate_3d_grid does not fail:
\* the call returns its slices.
C16_DegenerateInterpolationReturns ==
    (/\ stages # <<>>
     /\ pc \in {"returned", "raised", "aborted"}
     /\ LastCall.call = "interpolate_3d_grid"
     /\ Degenerate(Coords(before.df)))
        => LastCall.outcome = "returned"

\* C17: train_uranium_model returns a fitted model and its metrics only for
\* a table of five rows or more; on a table of one to four rows the call
\* fails.
C17_SmallTableNeverFits ==
    JustReturned("train_uranium_model") => Len(before.df) >= 5

\* for each row of table t, the rows whose standardized midpoint is within
\* the radius eps/1000 of its own
Within(t, eps) ==
    LET pts == Coords(t)
        sc  == ScalerFit(pts)
    IN  Array([i \in 1..Len(t) |->
                  {j \in 1..Len(t) :
                      Le(Dist2(pts, sc, i, j), Rat(eps * eps, 1000000))}])

\* a core point has at least min_samples rows within the radius, itself
\* counted
CorePoints(near, min_samples) ==
    {i \in DOMAIN near : Cardinality(near[i]) >= min_samples}

\* the core points a chain of core points, each within the radius of the
\* next, connects to those of S
RECURSIVE Chained(_, _, _)
Chained(S, core, near) ==
    LET more == {j \in core : \E i \in S : j \in near[i]}
    IN  IF more \subseteq S THEN S ELSE Chained(S \cup more, core, near)

\* C18: after spatial_clustering(df, eps) (min_samples 3), with the radius
\* eps/1000 on the standardized midpoints: a row has Cluster -1 iff it is
\* within the radius of no core point; two core points have the same Cluster
\* iff a chain of core points, each within the radius of the next, connects
\* them; and the Cluster values other than -1 are exactly 0..k-1.
C18_DensityReachability ==
    (pc = "returned" /\ Returned("spatial_clustering"))
        => LET near == Within(load_and_preprocess_data(sample_data),
                              clustering_eps)
               core == CorePoints(near, 3)
               used == {df[i].Cluster : i \in 1..Len(df)} \ {-1}
           IN  /\ Len(df) = Len(near)
               /\ \A i \in 1..Len(df) :
                     (df[i].Cluster = -1) <=> (near[i] \cap core = {})
               /\ \A c1, c2 \in core :
                     (df[c1].Cluster = df[c2].Cluster)
                        <=> (c2 \in Chained({c1}, core, near))
               /\ used = 0..(Cardinality(used) - 1)

\* seven anomalies: one between two others that are not core points, three
\* at one place, and one away from all: two clusters, two border rows and a
\* noise row
C18_Witness ==
    /\ pc = "returned"
    /\ Returned("spatial_clustering")
    /\ Len(df) = ClusterMaxRows
    /\ LET core == CorePoints(Within(load_and_preprocess_data(sample_data),
                                     clustering_eps), 3)
       IN  /\ {df[i].Cluster : i \in 1..Len(df)} = {-1, 0, 1}
           /\ \E i \in 1..Len(df) : i \notin core /\ df[i].Cluster = 1
           /\ \E i \in core : df[i].Cluster = 0

(***************************************************************************)
(* Claims about load_and_preprocess_data (SpecPre).                        *)
(***************************************************************************)
\* an input row whose five critical fields are all present and parseable
Qualifies(r) ==
    /\ r.DebutE.t = "num" /\ r.DebutN.t = "num"
    /\ r.FinE.t = "num" /\ r.FinN.t = "num"
    /\ r.MoyU.t = "num"

QualifyingRows == {i \in 1..Len(sample_data) : Qualifies(sample_data[i])}

\* C10: load_and_preprocess_data never raises because of an unparsable
\* numeric cell; what it returns is exactly the input rows, in input order,
\* whose five critical fields are all present and parseable, and it raises
\* (ValueError, the DataError of the design) iff no input row qualifies.
C10_ExactlyQualifyingRows ==
    /\ pc = "raised" => exc = "ValueError" /\ QualifyingRows = {}
    /\ pc = "returned" =>
          /\ exc = ""
          /\ QualifyingRows # {}
          /\ Len(df) = Cardinality(QualifyingRows)
          /\ \A k \in 1..Len(df) :
                /\ df[k].index + 1 \in QualifyingRows
                /\ \A c \in {"DebutE", "DebutN", "FinE", "FinN", "MoyU"} :
                      df[k][c] = sample_data[df[k].index + 1][c]
          /\ \A k \in 1..(Len(df) - 1) : df[k].index < df[k + 1].index

\* a row with an unparsable cell was dropped and the row after it was kept
C10_Witness ==
    /\ pc = "returned"
    /\ Len(sample_data) = 2 /\ Len(df) = 1
    /\ sample_data[1].DebutE = Txt
    /\ df[1].index = 1

\* the value column col of row k of the preprocessed table must hold: the
\* retained row's own value when it has one, else the mean of the column
\* over the retained rows that have one
Filled(kept, k, col) ==
    IF IsNum(kept[k][col]) THEN kept[k][col]
    ELSE LET present == SelectSeq(Column(kept, col), IsNum)
         IN  IF present = <<>> THEN NaN
             ELSE Div(Sum(present), Len(present))

\* C19: in the table load_and_preprocess_data returns, a row whose length
\* (thickness) was missing holds the mean of the column over the retained
\* rows that had it, a row that had it keeps it, Volume_approx is the
\* filled length times the filled thickness, and no row has a missing
\* length, thickness or Volume_approx.
C19_MissingGeometryIsFilled ==
    HasTable(df)
        => LET kept == Retained(sample_data)
           IN  /\ Len(df) = Len(kept)
               /\ \A k \in 1..Len(df) :
                     /\ df[k].Longueur = Filled(kept, k, "Longueur")
                     /\ df[k].Epaisseur = Filled(kept, k, "Epaisseur")
                     /\ df[k].Volume_approx
                           = Mul(df[k].Longueur, df[k].Epaisseur)
                     /\ IsNum(df[k].Longueur)
                     /\ IsNum(df[k].Epaisseur)
                     /\ IsNum(df[k].Volume_approx)

\* the place of a label in the sorted order of all labels
Rank(l) == CHOOSE k \in 1..Len(LabelOrder) : LabelOrder[k] = l

\* C20: in the table load_and_preprocess_data returns, a row whose lithology
\* was missing has the label "Inconnu" and the other rows keep their label;
\* two rows have the same Lithologie_encoded iff they have the same label,
\* the values used are exactly 0..k-1 for k distinct labels, and they
\* increase with the sorted order of the labels, whatever the order of the
\* rows and whatever the processor has preprocessed before.
C20_LithologyIndexIsSortedRank ==
    JustReturned("load_and_preprocess_data")
        => LET kept   == Retained(before.sample_data)
               labels == {df[k].Lithologie : k \in 1..Len(df)}
           IN  /\ Len(df) = Len(kept)
               /\ \A k \in 1..Len(df) :
                     df[k].Lithologie =
                        IF kept[k].Lithologie = NoLabel THEN "Inconnu"
                        ELSE kept[k].Lithologie
               /\ \A j, k \in 1..Len(df) :
                     /\ (df[j].Lithologie_encoded = df[k].Lithologie_encoded)
                           <=> (df[j].Lithologie = df[k].Lithologie)
                     /\ Rank(df[j].Lithologie) < Rank(df[k].Lithologie)
                           => df[j].Lithologie_encoded < df[k].Lithologie_encoded
               /\ {df[k].Lithologie_encoded : k \in 1..Len(df)}
                     = 0..(Cardinality(labels) - 1)

\* a processor whose encoder was fitted on the four lithologies of the
\* sample preprocesses four rows labelled Schiste, Granite, none, Granite
C20_Witness ==
    /\ JustReturned("load_and_preprocess_data")
    /\ before.processor.label_encoder
          = <<"Gneiss", "Granite", "Quartzite", "Schiste">>
    /\ Len(df) = 4
    /\ before.sample_data[3].Lithologie = NoLabel
    /\ [k \in 1..4 |-> df[k].Lithologie_encoded] = <<2, 0, 1, 0>>

(***************************************************************************)
(* Claims about calculate_ore_reserves, the sweep and the optimisation     *)
(* (SpecReserves).                                                         *)
(***************************************************************************)
\* the direct call of this run has returned
ReservesComputed == pc \in {"sweep", "economics", "done"}

\* the rows of the table whose mean grade is at least the cutoff
AtOrAbove(t, cutoff) ==
    {i \in 1..Len(t) : t[i].MoyU.t = "num" /\ t[i].MoyU.v >= cutoff * t[i].MoyU.d}

\* the sum of f over the set S; a missing term contributes nothing
RECURSIVE SumOver(_, _)
SumOver(S, f) ==
    IF S = {} THEN Num(0)
    ELSE LET i == CHOOSE x \in S : TRUE
         IN  IF f[i].t = "num" THEN Add(f[i], SumOver(S \ {i}, f))
             ELSE SumOver(S \ {i}, f)

\* volume proxy x 2.7, row by row
RowTonnage(t) ==
    [i \in 1..Len(t) |->
        IF t[i].Volume_approx.t = "num"
        THEN Rat(27 * t[i].Volume_approx.v, 10 * t[i].Volume_approx.d)
        ELSE NaN]

\* tonnage x mean grade / 1e6, row by row
RowMetal(t) ==
    LET tonnage == RowTonnage(t)
    IN  [i \in 1..Len(t) |->
            IF tonnage[i].t = "num"
            THEN Rat(tonnage[i].v * t[i].MoyU.v,
                     tonnage[i].d * t[i].MoyU.d * 1000000)
            ELSE NaN]

\* C4: calculate_ore_reserves returns as ore subset exactly the rows whose
\* mean grade is >= the cutoff (inclusive, in table order), and a summary
\* whose total tonnage is the sum over those rows of volume proxy x 2.7,
\* whose metal content is the sum of tonnage x mean grade / 1e6, whose
\* average grade is their mean grade and whose ore-block count is their
\* number (a row whose volume proxy is missing adds nothing to the sums).
C4_OreSubsetAndSummary ==
    ReservesComputed =>
        LET ore == AtOrAbove(df, cutoff_grade)
        IN  /\ Len(ore_data) = Cardinality(ore)
            /\ \A k \in 1..Len(ore_data) :
                  \E i \in ore :
                     \A f \in DOMAIN df[i] : ore_data[k][f] = df[i][f]
            /\ \A k \in 1..(Len(ore_data) - 1) :
                  ore_data[k].index < ore_data[k + 1].index
            /\ reserves.ore_blocks = Cardinality(ore)
            /\ reserves.total_tonnage = SumOver(ore, RowTonnage(df))
            /\ reserves.metal_content = SumOver(ore, RowMetal(df))
            /\ ore # {} =>
                  Mul(reserves.average_grade, Num(Cardinality(ore)))
                     = SumOver(ore, Column(df, "MoyU"))

\* grades [10, 40, 60] with cutoff 30: the two rows 40 and 60 are the ore
C4_Witness ==
    /\ ReservesComputed
    /\ cutoff_grade = 30
    /\ Len(df) = 3
    /\ df[1].MoyU = Num(10) /\ df[2].MoyU = Num(40) /\ df[3].MoyU = Num(60)
    /\ Len(ore_data) = 2 /\ reserves.ore_blocks = 2
    /\ ore_data[1].MoyU = Num(40) /\ ore_data[2].MoyU = Num(60)
    /\ Gt(reserves.total_tonnage, Num(0))

\* C5: when every row's mean grade is below the cutoff the call does not
\* raise; it returns tonnage 0, metal content 0, ore-block count 0, an
\* empty ore subset and an undefined (NaN) average grade.
C5_EmptyOreSubset ==
    (ReservesComputed /\ AtOrAbove(df, cutoff_grade) = {}) =>
        /\ exc = ""
        /\ ore_data = <<>>
        /\ reserves.total_tonnage = Num(0)
        /\ reserves.metal_content = Num(0)
        /\ reserves.ore_blocks = 0
        /\ reserves.average_grade = NaN
        /\ reserves.average_grade # Num(0)

C5_Witness ==
    /\ ReservesComputed
    /\ Len(df) = 2
    /\ cutoff_grade = 60
    /\ AtOrAbove(df, cutoff_grade) = {}
    /\ reserves.ore_blocks = 0

\* the swept series is there
Swept == pc \in {"economics", "done"}

\* C6: along the sweep, and between the direct call and any sweep point,
\* the total tonnage at a lower cutoff is >= the total tonnage at a higher
\* cutoff.
C6_TonnageNonIncreasing ==
    Swept =>
        /\ \A i, j \in 1..Len(reserve_df) :
              i <= j => Ge(reserve_df[i].Tonnage, reserve_df[j].Tonnage)
        /\ \A j \in 1..Len(reserve_df) :
              /\ cutoff_grade <= reserve_df[j].Cutoff
                    => Ge(reserves.total_tonnage, reserve_df[j].Tonnage)
              /\ reserve_df[j].Cutoff <= cutoff_grade
                    => Ge(reserve_df[j].Tonnage, reserves.total_tonnage)

\* the table load_data returned in this run
LoadedTable == load_and_preprocess_data(sample_data)

\* C7: every sweep point records the tonnage, average grade and metal
\* content that a single call at that cutoff on the loaded table returns,
\* whatever was computed before it; in particular the sweep point at the
\* slider's cutoff equals the summary of the direct call.
C7_SweepMatchesDirectCall ==
    Swept =>
        LET table == LoadedTable
            single == [i \in 1..Len(reserve_df) |->
                          Reserves(OreData(table, reserve_df[i].Cutoff))]
        IN  \A i \in 1..Len(reserve_df) :
            LET direct == single[i]
            IN  /\ reserve_df[i].Tonnage = direct.total_tonnage
                /\ reserve_df[i].TeneurMoyenne = direct.average_grade
                /\ reserve_df[i].ContenuMetal = direct.metal_content
                /\ reserve_df[i].Cutoff = cutoff_grade =>
                      /\ reserve_df[i].Tonnage = reserves.total_tonnage
                      /\ reserve_df[i].TeneurMoyenne = reserves.average_grade
                      /\ reserve_df[i].ContenuMetal = reserves.metal_content

\* a second run has swept a table of which the slider's cutoff keeps a part
C7_Witness ==
    /\ Swept
    /\ Len(reported) = 1
    /\ cutoff_grade = 30
    /\ Len(df) = 3
    /\ reserves.ore_blocks = 1
    /\ reserve_df[3].Cutoff = 30
    /\ Gt(reserve_df[3].Tonnage, Num(0))
    /\ Gt(reserve_df[1].Tonnage, reserve_df[3].Tonnage)

\* the optimal cutoff has been reported
Optimised == pc = "done"

\* metal x 1000 x price x recovery - tonnage x (mining + processing)
ProfitOf(row) ==
    Sub(Mul(Rat(1000 * econ.uranium_price * econ.recovery, 100), row.ContenuMetal),
        Mul(Num(econ.mining_cost + econ.processing_cost), row.Tonnage))

\* the sweep points at which the profit is maximal
Maximal ==
    {i \in 1..Len(reserve_df) :
        \A j \in 1..Len(reserve_df) : Le(reserve_df[j].Profit, reserve_df[i].Profit)}

\* C8: at every swept cutoff profit = metal content x 1000 x price x
\* recovery - tonnage x (mining cost + processing cost), and the reported
\* optimal cutoff is a swept cutoff of maximal profit, the lowest of them
\* when several attain it.
C8_ProfitAndOptimalCutoff ==
    Optimised =>
        /\ \A i \in 1..Len(reserve_df) :
              reserve_df[i].Profit = ProfitOf(reserve_df[i])
        /\ \E i \in Maximal : reserve_df[i].Cutoff = optimal_cutoff
        /\ \A i \in Maximal : optimal_cutoff <= reserve_df[i].Cutoff

\* two swept cutoffs share the maximal profit, which is not zero
C8_Witness ==
    /\ Optimised
    /\ Cardinality(Maximal) = 3
    /\ \E i \in Maximal :
          /\ reserve_df[i].Cutoff = optimal_cutoff
          /\ Gt(reserve_df[i].Profit, Num(0))
    /\ \E i \in 1..Len(reserve_df) : Lt(reserve_df[i].Profit, Num(0))

\* C9 as stated: the maximum of the profit curve over 10, 20, ..., 100 is
\* attained at exactly one swept cutoff.
C9_UniqueArgmax ==
    Optimised => Cardinality(Maximal) = 1

\* the profits a fresh computation on the loaded table gives at the cutoffs
\* 10, 20, ..., 100
FreshProfit ==
    LET table == LoadedTable
    IN  [n \in 1..10 |-> Economics(SweepRow(table, 10 * n), econ).Profit]

\* C9 as amended: the maximum of the profit curve over 10, 20, ..., 100 may
\* be attained at several swept cutoffs; every run reports the same cutoff,
\* the lowest swept cutoff at which a fresh computation of the curve is
\* maximal.
C9_RunStableArgmax ==
    Optimised =>
        LET fresh == FreshProfit
        IN  \A k \in 1..Len(reported) :
              /\ reported[k] = reported[1]
              /\ \E m \in 1..10 :
                    /\ reported[k] = 10 * m
                    /\ \A n \in 1..10 :
                          /\ Le(fresh[n], fresh[m])
                          /\ fresh[n] = fresh[m] => m <= n

\* two runs have reported, and the maximum is attained at several cutoffs
C9_Witness ==
    /\ Optimised
    /\ Len(reported) = 2
    /\ Cardinality(Maximal) > 1
    /\ \E i \in 1..Len(reserve_df) : Lt(reserve_df[i].Profit, reserve_df[1].Profit)

(***************************************************************************)
(* Claims about interpolate_3d_grid (SpecGrid).                            *)
(***************************************************************************)
\* the least and the greatest value of column col of table t
Lowest(t, col) ==
    CHOOSE v \in {t[i][col] : i \in 1..Len(t)} :
        \A i \in 1..Len(t) : Le(v, t[i][col])

Highest(t, col) ==
    CHOOSE v \in {t[i][col] : i \in 1..Len(t)} :
        \A i \in 1..Len(t) : Le(t[i][col], v)

\* the call of interpolate_3d_grid has returned its slices
Interpolated == pc = "returned" /\ Returned("interpolate_3d_grid")

\* axis has n points that go from the least to the greatest value of column
\* col without ever decreasing
Spans(axis, n, t, col) ==
    /\ Len(axis) = n
    /\ \A k \in 1..(n - 1) : Le(axis[k], axis[k + 1])
    /\ axis[1] = Lowest(t, col)
    /\ axis[n] = Highest(t, col)

\* every slice has its level, a lattice of resolution x resolution points
\* over the X/Y bounding box of the table and one estimate per point
SlicesCoverTheBox ==
    \A k \in 1..Len(interpolated_grids) :
        LET slice == interpolated_grids[k]
        IN  /\ IsNum(slice.z_level)
            /\ Spans(slice.x, grid_resolution, df, "X_mean")
            /\ Spans(slice.y, grid_resolution, df, "Y_mean")
            /\ slice.shape = <<grid_resolution, grid_resolution>>

\* the levels never decrease from one slice to the next
LevelsInOrder ==
    \A k \in 1..(Len(interpolated_grids) - 1) :
        Le(interpolated_grids[k].z_level, interpolated_grids[k + 1].z_level)

\* C21 as stated: interpolate_3d_grid(df, resolution) returns resolution \div 2
\* slices in the order of their levels, the first at the least and the last
\* at the greatest Z_mean of the table, each with a resolution x resolution
\* lattice over the X/Y bounding box and one estimate per lattice point.
C21_LevelsFromMinToMax ==
    Interpolated
        => /\ Len(interpolated_grids) = grid_resolution \div 2
           /\ LevelsInOrder
           /\ Len(interpolated_grids) >= 1
                 => /\ interpolated_grids[1].z_level = Lowest(df, "Z_mean")
                    /\ interpolated_grids[Len(interpolated_grids)].z_level
                          = Highest(df, "Z_mean")
           /\ SlicesCoverTheBox

\* C21 amended: interpolate_3d_grid(df, resolution) returns resolution \div 2
\* slices in the order of their levels, each with a resolution x resolution
\* lattice over the X/Y bounding box and one estimate per lattice point;
\* the first level is the least Z_mean of the table, and the last is the
\* greatest when there are two slices or more (a single slice is at the
\* least Z_mean).
C21_LevelsFromMinToMaxOfTwoOrMore ==
    Interpolated
        => /\ Len(interpolated_grids) = grid_resolution \div 2
           /\ LevelsInOrder
           /\ Len(interpolated_grids) >= 1
                 => interpolated_grids[1].z_level = Lowest(df, "Z_mean")
           /\ Len(interpolated_grids) >= 2
                 => interpolated_grids[Len(interpolated_grids)].z_level
                       = Highest(df, "Z_mean")
           /\ SlicesCoverTheBox

\* five rows at different depths have been interpolated at resolution 5: two
\* slices of 5 x 5 points, the first at the least and the second at the
\* greatest depth
C21_Witness ==
    /\ Interpolated
    /\ Len(df) = 5
    /\ grid_resolution = 5
    /\ Len(interpolated_grids) = 2
    /\ Lt(interpolated_grids[1].z_level, interpolated_grids[2].z_level)
    /\ Lt(interpolated_grids[1].x[1], interpolated_grids[1].x[5])

====
